---- MODULE Spec2Model ----
(***************************************************************************)
(* Model of src/data/convert_to_parquet.py: the chunked CSV -> Parquet     *)
(* converter (convert_large_csv_chunked), the whole-file converter         *)
(* (convert_small_csv) and the driver (main).                              *)
(*                                                                         *)
(* A cell of a data frame is a record [tag, v].  Text read with dtype=str  *)
(* has tag "str"; v is the number the text spells, or Bad when the text    *)
(* spells no number.  pd.to_numeric(errors='coerce') turns text into       *)
(* "num" or "nan"; .astype('Int64') turns those into "int" or "NA".        *)
(* File sizes are in bytes.                                                *)
(***************************************************************************)
EXTENDS Integers, Sequences, FiniteSets, TLC

VARIABLES
    \* ---- convert_large_csv_chunked ----
    csv,                  \* the rows of the source file, in file order
    hasYearCol,           \* 'collision_year' in chunk.columns
    year_filter,          \* <<>> for None, else <<lo, hi>>
    pc,                   \* "loop", "except" (in the handler), "done", "raised"
    chunk_num,            \* number of batches consumed so far
    output_files,         \* part numbers of the sealed shards, in append order
    part_num,
    current_writer,       \* 0 for None, else the part number the writer writes
    current_file,         \* 0 for None, else the part number of the path
    current_size,
    total_rows,
    filtered_rows,
    rows_in_current_part,
    disk,                 \* part number -> [rows, size] of the file at that path
    log,                  \* the ParquetWriter calls made so far, in order
    \* ---- convert_small_csv ----
    s_pc,                 \* "start", "written", "split", "done"
    df_len,               \* len(df)
    file_size,            \* os.path.getsize(temp_parquet)
    temp_exists,          \* <base>.parquet is on disk
    s_i,                  \* the split loop's i
    s_result,             \* the returned list: [part, start, end] per file,
                          \* part 0 for <base>.parquet, rows start..end-1 of df
    \* ---- main ----
    m_pc,                 \* "loop", "summary", "done", "raised"
    m_cat,                \* index into Categories of the category in hand
    m_file,               \* number of files of that category already handled
    all_output_files,     \* [category, file, rows] per output file
    visits                \* [category, file, outcome] per file handled

largeVars == <<csv, hasYearCol, year_filter, pc, chunk_num, output_files, part_num,
               current_writer, current_file, current_size, total_rows,
               filtered_rows, rows_in_current_part, disk, log>>
smallVars == <<s_pc, df_len, file_size, temp_exists, s_i, s_result>>
mainVars == <<m_pc, m_cat, m_file, all_output_files, visits>>
vars == <<largeVars, smallVars, mainVars>>

----------------------------------------------------------------------------
(* Program constants *)

MAX_SIZE_MB == 50
BytesPerMB == 1048576
MAX_SIZE_BYTES == MAX_SIZE_MB * BytesPerMB
YearLo == 2015
YearHi == 2024
LargeThresholdMB == 500

(* Bounds of the model *)

\* CHUNK_SIZE is 100000 in the source; the model reads batches of this many rows.
CHUNK_SIZE == 2
\* Longest source file, in rows.
MaxRows == 3
\* Longest data frame convert_small_csv is given, in rows.
MaxDfRows == 7

----------------------------------------------------------------------------
(* Cells *)

Bad == -1
Txt(c) == [tag |-> "str", v |-> c]
Num(n) == [tag |-> "num", v |-> n]
NaN == [tag |-> "nan", v |-> 0]
Int64(n) == [tag |-> "int", v |-> n]
NA == [tag |-> "NA", v |-> 0]
Absent == [tag |-> "absent", v |-> 0]

\* pd.to_numeric(x, errors='coerce') on one cell.
to_numeric(x) ==
    IF x.tag = "str" THEN (IF x.v = Bad THEN NaN ELSE Num(x.v)) ELSE x

\* .astype('Int64') on one cell of a numeric column.
astype_Int64(x) ==
    IF x.tag = "num" THEN Int64(x.v) ELSE IF x.tag = "nan" THEN NA ELSE x

Min(a, b) == IF a < b THEN a ELSE b

----------------------------------------------------------------------------
(* convert_large_csv_chunked: inputs *)

\* Texts a collision_year cell may hold: below, at and above the filter's
\* bounds, and a text that spells no number.
YearTexts == {Txt(YearLo - 1), Txt(YearLo), Txt(YearHi), Txt(YearHi + 1), Txt(Bad)}
\* Texts a cell of the other column may hold.
ValTexts == {Txt(7), Txt(Bad)}

RowsOfLen(n, withYear) ==
    { [i \in 1..n |-> [id |-> i, year |-> f[i][1], val |-> f[i][2]]] :
        f \in [1..n -> (IF withYear THEN YearTexts ELSE {Absent}) \X ValTexts] }

\* On-disk growth of a shard by one write_table call, in bytes: what the
\* compressed row groups of a batch may add.
WriteSizes == {15 * BytesPerMB, 30 * BytesPerMB - 1, 30 * BytesPerMB, 45 * BytesPerMB}

\* pd.read_csv(csv_path, chunksize=CHUNK_SIZE): the batches of the file.  A
\* file that holds only its header yields one batch without rows.
NumChunks(rows) ==
    IF Len(rows) = 0 THEN 1 ELSE (Len(rows) + CHUNK_SIZE - 1) \div CHUNK_SIZE

Chunk(rows, k) ==
    SubSeq(rows, (k - 1) * CHUNK_SIZE + 1, Min(k * CHUNK_SIZE, Len(rows)))

\* pd.read_csv(csv_path, nrows=CHUNK_SIZE)
first_chunk == SubSeq(csv, 1, Min(CHUNK_SIZE, Len(csv)))

\* The type pandas infers for a column of the first chunk: integer when
\* every cell spells a number, text otherwise.
InferType(chunk, col) ==
    IF Len(chunk) > 0 /\ \A i \in DOMAIN chunk : chunk[i][col].v # Bad
    THEN "int" ELSE "string"

master_schema ==
    [year |-> IF hasYearCol THEN InferType(first_chunk, "year") ELSE "absent",
     val  |-> InferType(first_chunk, "val")]

----------------------------------------------------------------------------
(* convert_large_csv_chunked: one batch *)

\* year_filter and 'collision_year' in chunk.columns
FilterApplies == year_filter # <<>> /\ hasYearCol

\* InRange without the upper bound.
InRangeNoUpper(y, f) == y.tag = "num" /\ y.v >= f[1]

\* InRange with NaN let through.
InRangeKeepsNaN(y, f) == y.tag = "nan" \/ (y.tag = "num" /\ y.v >= f[1] /\ y.v <= f[2])

\* (chunk['collision_year'] >= year_filter[0]) & (chunk['collision_year'] <= year_filter[1])
\* on one cell; a comparison with NaN is False.
InRange(y, f) == y.tag = "num" /\ y.v >= f[1] /\ y.v <= f[2]

\* Lines 52-55: the year column made numeric, then the rows in range kept.
FilterChunk(chunk, f) ==
    LET numeric == [i \in DOMAIN chunk |->
                      [chunk[i] EXCEPT !.year = to_numeric(@)]]
    IN SelectSeq(numeric, LAMBDA r : InRange(r.year, f))

AfterFilter(chunk) ==
    IF FilterApplies THEN FilterChunk(chunk, year_filter) ELSE chunk

\* Skips without the continue.
SkipsNever(chunk) == FALSE

\* Lines 58-60: the batch is skipped when the filter ran and left no row.
Skips(chunk) == FilterApplies /\ Len(AfterFilter(chunk)) = 0

\* Lines 67-71 on one cell of a column of the given master-schema type.
CoerceCell(type, x) ==
    IF type = "int" THEN astype_Int64(to_numeric(x))
    ELSE IF type = "float" THEN to_numeric(x)
    ELSE x

\* Lines 63-71: every column of the master schema coerced to its type.
CoerceChunk(chunk, schema) ==
    [i \in DOMAIN chunk |->
        [id   |-> chunk[i].id,
         year |-> CoerceCell(schema.year, chunk[i].year),
         val  |-> CoerceCell(schema.val, chunk[i].val)]]

\* RolloverDue with > for >=.
RolloverDueStrict(bytes) == bytes * 10 > MAX_SIZE_BYTES * 9

\* RolloverDue at half of MAX_SIZE_MB.
RolloverDueHalf(bytes) == bytes * 10 >= MAX_SIZE_BYTES * 5

\* current_size >= MAX_SIZE_MB * 0.9 with current_size = bytes / (1024 * 1024)
RolloverDue(bytes) == bytes * 10 >= MAX_SIZE_BYTES * 9

\* NextPart without the increment.
NextPartSame(p) == p

\* part_num += 1
NextPart(p) == p + 1

Event(o, p, sz) == [op |-> o, part |-> p, size |-> sz]

\* disk with the file at part p replaced by f (created when absent).
PutFile(d, p, f) == [q \in DOMAIN d \cup {p} |-> IF q = p THEN f ELSE d[q]]

EmptyFile == [rows |-> <<>>, size |-> 0]

----------------------------------------------------------------------------
(* convert_large_csv_chunked: the function, one action per loop iteration *)

SmallIdle ==
    /\ s_pc = "idle" /\ df_len = 0 /\ file_size = 0 /\ temp_exists = FALSE
    /\ s_i = 0 /\ s_result = <<>>

MainIdle ==
    /\ m_pc = "idle" /\ m_cat = 0 /\ m_file = 0
    /\ all_output_files = <<>> /\ visits = <<>>

\* Lines 39-46, for every source file of at most MaxRows rows.
InitLarge ==
    /\ hasYearCol \in BOOLEAN
    /\ csv \in UNION { RowsOfLen(n, hasYearCol) : n \in 0..MaxRows }
    /\ year_filter \in {<<>>, <<YearLo, YearHi>>}
    /\ pc = "loop"
    /\ chunk_num = 0
    /\ output_files = <<>>
    /\ part_num = 1
    /\ current_writer = 0
    /\ current_file = 0
    /\ current_size = 0
    /\ total_rows = 0
    /\ filtered_rows = 0
    /\ rows_in_current_part = 0
    /\ disk = <<>>
    /\ log = <<>>

Init == InitLarge /\ SmallIdle /\ MainIdle

\* Lines 49-60: a batch the year filter empties; the loop continues.
IterSkip ==
    /\ pc = "loop" /\ chunk_num < NumChunks(csv)
    /\ LET raw == Chunk(csv, chunk_num + 1)
       IN /\ Skips(raw)
          /\ chunk_num' = chunk_num + 1
          /\ filtered_rows' = filtered_rows + (Len(raw) - Len(AfterFilter(raw)))
    /\ UNCHANGED <<csv, hasYearCol, year_filter, pc, output_files, part_num,
                   current_writer, current_file, current_size, total_rows,
                   rows_in_current_part, disk, log>>
    /\ UNCHANGED <<smallVars, mainVars>>

\* Lines 49-99: a batch that is written; the shard grows by inc bytes on disk.
IterWrite(inc) ==
    /\ pc = "loop" /\ chunk_num < NumChunks(csv)
    /\ LET raw     == Chunk(csv, chunk_num + 1)
           kept    == AfterFilter(raw)
           chunk   == CoerceChunk(kept, master_schema)
           fresh   == current_writer = 0
           file    == IF fresh THEN part_num ELSE current_file
           before  == IF fresh THEN EmptyFile ELSE disk[current_writer]
           after   == [rows |-> before.rows \o chunk, size |-> before.size + inc]
           opening == IF fresh THEN <<Event("open", file, 0)>> ELSE <<>>
           writing == <<Event("write", file, after.size)>>
           in_part == (IF fresh THEN 0 ELSE rows_in_current_part) + Len(chunk)
       IN /\ ~Skips(raw)
          /\ chunk_num' = chunk_num + 1
          /\ filtered_rows' = IF FilterApplies
                              THEN filtered_rows + (Len(raw) - Len(kept))
                              ELSE filtered_rows
          /\ total_rows' = total_rows + Len(chunk)
          /\ disk' = PutFile(disk, file, after)
          /\ rows_in_current_part' = in_part
          /\ current_size' = after.size
          /\ IF RolloverDue(after.size)
             THEN /\ log' = log \o opening \o writing \o <<Event("close", file, after.size)>>
                  /\ output_files' = Append(output_files, file)
                  /\ part_num' = NextPart(part_num)
                  /\ current_writer' = 0
                  /\ current_file' = 0
             ELSE /\ log' = log \o opening \o writing
                  /\ current_writer' = file
                  /\ current_file' = file
                  /\ UNCHANGED <<output_files, part_num>>
    /\ UNCHANGED <<csv, hasYearCol, year_filter, pc>>
    /\ UNCHANGED <<smallVars, mainVars>>

\* Lines 49-83: an iteration that raises.  at = "read": the reader raises on
\* the next batch (line 49); "open": pq.ParquetWriter raises (line 78);
\* "write": Table.from_pandas or write_table raises (lines 82-83), after the
\* shard was opened when none was.  to_numeric(errors='coerce') and
\* astype('Int64') of whole or missing numbers do not raise.
IterRaise(at) ==
    /\ pc = "loop" /\ chunk_num < NumChunks(csv)
    /\ pc' = "except"
    /\ LET raw   == Chunk(csv, chunk_num + 1)
           kept  == AfterFilter(raw)
           fresh == current_writer = 0
       IN IF at = "read"
          THEN UNCHANGED <<filtered_rows, total_rows, current_writer, current_file,
                           rows_in_current_part, disk, log>>
          ELSE /\ ~Skips(raw)
               /\ filtered_rows' = IF FilterApplies
                                   THEN filtered_rows + (Len(raw) - Len(kept))
                                   ELSE filtered_rows
               /\ total_rows' = total_rows + Len(kept)
               /\ IF at = "open"
                  THEN /\ fresh
                       /\ UNCHANGED <<current_writer, current_file,
                                      rows_in_current_part, disk, log>>
                  ELSE IF fresh
                       THEN /\ current_writer' = part_num
                            /\ current_file' = part_num
                            /\ rows_in_current_part' = 0
                            /\ disk' = PutFile(disk, part_num, EmptyFile)
                            /\ log' = Append(log, Event("open", part_num, 0))
                       ELSE UNCHANGED <<current_writer, current_file,
                                        rows_in_current_part, disk, log>>
    /\ UNCHANGED <<csv, hasYearCol, year_filter, chunk_num, output_files, part_num,
                   current_size>>
    /\ UNCHANGED <<smallVars, mainVars>>

\* Lines 105-117: the reader is exhausted; the last shard is closed and listed.
Finish ==
    /\ pc = "loop" /\ chunk_num = NumChunks(csv)
    /\ pc' = "done"
    /\ IF current_writer # 0
       THEN /\ log' = Append(log, Event("close", current_writer, disk[current_writer].size))
            /\ output_files' = Append(output_files, current_file)
       ELSE UNCHANGED <<log, output_files>>
    /\ UNCHANGED <<csv, hasYearCol, year_filter, chunk_num, part_num, current_writer,
                   current_file, current_size, total_rows, filtered_rows,
                   rows_in_current_part, disk>>
    /\ UNCHANGED <<smallVars, mainVars>>

\* ExceptHandler without the close.
ExceptHandlerNoClose ==
    /\ pc = "except"
    /\ pc' = "raised"
    /\ UNCHANGED <<csv, hasYearCol, year_filter, chunk_num, output_files, part_num,
                   current_writer, current_file, current_size, total_rows,
                   filtered_rows, rows_in_current_part, disk, log>>
    /\ UNCHANGED <<smallVars, mainVars>>

\* Lines 119-123: the handler closes the open writer and re-raises.
ExceptHandler ==
    /\ pc = "except"
    /\ pc' = "raised"
    /\ IF current_writer # 0
       THEN log' = Append(log, Event("close", current_writer, disk[current_writer].size))
       ELSE UNCHANGED log
    /\ UNCHANGED <<csv, hasYearCol, year_filter, chunk_num, output_files, part_num,
                   current_writer, current_file, current_size, total_rows,
                   filtered_rows, rows_in_current_part, disk>>
    /\ UNCHANGED <<smallVars, mainVars>>

Next ==
    \/ IterSkip
    \/ \E inc \in WriteSizes : IterWrite(inc)
    \/ \E at \in {"read", "open", "write"} : IterRaise(at)
    \/ Finish
    \/ ExceptHandler

Spec == Init /\ [][Next]_vars

----------------------------------------------------------------------------
(* convert_large_csv_chunked: what the claims speak of *)

RECURSIVE ConcatShards(_)
\* The rows of the listed shards, in list order.
ConcatShards(files) ==
    IF files = <<>> THEN <<>>
    ELSE disk[Head(files)].rows \o ConcatShards(Tail(files))

Ids(rows) == [i \in DOMAIN rows |-> rows[i].id]

\* The year the text of a collision_year cell spells lies in [YearLo, YearHi].
SpellsYearInRange(cell) == cell.v # Bad /\ YearLo <= cell.v /\ cell.v <= YearHi

\* The source rows the year filter lets through, in file order.
Survivors ==
    SelectSeq(csv, LAMBDA r : FilterApplies => SpellsYearInRange(r.year))

\* Some shard on disk holds the source row numbered i.
Written(i) == \E p \in DOMAIN disk : \E j \in DOMAIN disk[p].rows : disk[p].rows[j].id = i

\* The measured size is at least 90% of MAX_SIZE_MB.
AtThreshold(bytes) == bytes * 10 >= MAX_SIZE_BYTES * 9

Writes == { i \in DOMAIN log : log[i].op = "write" }
Opens == { i \in DOMAIN log : log[i].op = "open" }
Closes == { i \in DOMAIN log : log[i].op = "close" }

\* Writers open after the first i ParquetWriter calls.
OpenAfter(i) ==
    Cardinality({ j \in Opens : j <= i }) - Cardinality({ j \in Closes : j <= i })

\* No write so far left the shard at or above the threshold.
NeverAtThreshold == \A i \in Writes : ~AtThreshold(log[i].size)

\* C1: a write that leaves the shard at or above 90% of MAX_SIZE_MB is followed
\* at once (same iteration) by the close of that shard, the shard is listed in
\* output_files, no later write goes to it, and the next write goes to a shard
\* opened after it under the next part number.
C1_RolloverSeals ==
    \A i \in Writes :
        AtThreshold(log[i].size) =>
            /\ i + 1 \in Closes
            /\ log[i + 1].part = log[i].part
            /\ \E k \in DOMAIN output_files : output_files[k] = log[i].part
            /\ \A j \in Writes : j > i => log[j].part # log[i].part
            /\ \A j \in Writes :
                 (j > i /\ \A m \in Writes : ~(i < m /\ m < j)) =>
                    /\ log[j].part = log[i].part + 1
                    /\ j = i + 3
                    /\ log[i + 2] = Event("open", log[i].part + 1, 0)

\* A shard was sealed at the threshold and the next batch went to the next part.
C1_Witness ==
    \E i \in Writes : \E j \in Writes :
        /\ AtThreshold(log[i].size) /\ j > i /\ log[j].part = log[i].part + 1
        /\ Len(output_files) >= 1

\* C2: never more than one writer open; when the function has returned or
\* re-raised, every writer that was opened has been closed (each open is
\* followed by a close of the same part); the shards sealed before an
\* exception are still on disk with their rows.
C2_WritersClosed ==
    /\ \A i \in DOMAIN log : OpenAfter(i) \in {0, 1}
    /\ pc \in {"done", "raised"} =>
          /\ OpenAfter(Len(log)) = 0
          /\ \A i \in Opens : \E j \in Closes : j > i /\ log[j].part = log[i].part
    /\ pc \in {"except", "raised"} =>
          \A k \in DOMAIN output_files :
              /\ output_files[k] \in DOMAIN disk
              /\ Len(disk[output_files[k]].rows) > 0

\* The function re-raised with a shard sealed earlier and another shard open at
\* the time of the exception, which the handler closed.
C2_Witness ==
    /\ pc = "raised"
    /\ Len(output_files) >= 1
    /\ current_writer # 0
    /\ log[Len(log)] = Event("close", current_writer, disk[current_writer].size)

\* C3: on normal return the rows of the returned shards, concatenated in list
\* order, are the surviving source rows in file order, each exactly once, and
\* total_rows + filtered_rows is the number of source rows.
C3_RoundTrip ==
    pc = "done" =>
        /\ Ids(ConcatShards(output_files)) = Ids(Survivors)
        /\ total_rows + filtered_rows = Len(csv)
        /\ total_rows = Len(Survivors)

\* A normal return with two shards and with rows filtered out.
C3_Witness ==
    pc = "done" /\ Len(output_files) = 2 /\ filtered_rows > 0 /\ total_rows >= 2

\* C4: with a year filter on a source that has collision_year, every row in
\* every shard file has a numeric year within [lo, hi], and no source row whose
\* year text spells a number outside [lo, hi] is in any shard.
C4_YearFilter ==
    FilterApplies =>
        /\ \A p \in DOMAIN disk : \A j \in DOMAIN disk[p].rows :
              LET y == disk[p].rows[j].year
              IN /\ y.tag \in {"num", "int"}
                 /\ year_filter[1] <= y.v /\ y.v <= year_filter[2]
        /\ \A i \in DOMAIN csv :
              (csv[i].year.v # Bad /\ ~SpellsYearInRange(csv[i].year)) => ~Written(i)

\* A filtered run returned, having written a row and dropped one whose year
\* spells a number out of range.
C4_Witness ==
    /\ FilterApplies /\ pc = "done" /\ total_rows > 0
    /\ \E i \in DOMAIN csv : csv[i].year.v # Bad /\ ~SpellsYearInRange(csv[i].year)

\* The cell is unparseable text in a column the master schema types as integer.
BadNumeric(cell, type) == cell.v = Bad /\ cell.tag = "str" /\ type = "int"

\* The row of some shard that carries source row i.
ShardRow(i) ==
    CHOOSE r \in UNION { { disk[p].rows[j] : j \in DOMAIN disk[p].rows } : p \in DOMAIN disk } :
        r.id = i

OneShardLog ==
    /\ Len(log) >= 3
    /\ log[1] = Event("open", 1, 0)
    /\ \A i \in 2..(Len(log) - 1) : log[i].op = "write" /\ log[i].part = 1
    /\ log[Len(log)].op = "close" /\ log[Len(log)].part = 1

\* What C7 promises of a run that never measured the threshold.
OneShardRun ==
    /\ (pc = "loop" => Closes = {} /\ output_files = <<>>)
    /\ (pc = "done" =>
          /\ output_files = <<1>>
          /\ DOMAIN disk = {1}
          /\ OneShardLog
          /\ Ids(disk[1].rows) = Ids(Survivors)
          /\ (Len(csv) = 1 => Len(disk[1].rows) = 1))

\* C7 as stated: for every non-empty input whose shard never measures at or
\* above the threshold, exactly one shard, part01, is produced, closed only
\* after the last batch, holding every surviving row.
C7_Original ==
    (Len(csv) > 0 /\ NeverAtThreshold) => OneShardRun

\* C7 amended: the same, for every non-empty input of which at least one row
\* survives the year filter.
C7_OneShard ==
    (Len(csv) > 0 /\ NeverAtThreshold /\ Survivors # <<>>) => OneShardRun

\* A run over two batches returned one shard, having measured it twice.
C7_Witness ==
    /\ pc = "done" /\ NeverAtThreshold /\ chunk_num = 2
    /\ Cardinality(Writes) = 2 /\ output_files = <<1>>

\* C10: at the head of every iteration and on normal return (the source not
\* empty), output_files is <<1, ..., k>>, part_num is k + 1 inside the loop,
\* every shard file holds a row, every open is followed at once by a write to
\* the shard it opened, the batches written are the consumed batches the
\* filter did not empty, and with no surviving row there is no shard file and
\* nothing is listed.
C10_PartNumbers ==
    (Len(csv) > 0 /\ pc \in {"loop", "done"}) =>
        /\ \A k \in DOMAIN output_files : output_files[k] = k
        /\ pc = "loop" => part_num = Len(output_files) + 1
        /\ \A p \in DOMAIN disk : Len(disk[p].rows) >= 1
        /\ \A i \in Opens :
              i + 1 \in Writes /\ log[i + 1].part = log[i].part
        /\ Cardinality(Writes) =
              Cardinality({ k \in 1..chunk_num : AfterFilter(Chunk(csv, k)) # <<>> })
        /\ Survivors = <<>> => (DOMAIN disk = {} /\ output_files = <<>> /\ log = <<>>)

\* A run returned two shards, numbered 1 and 2, with rows filtered out.
C10_Witness ==
    /\ pc = "done" /\ output_files = <<1, 2>> /\ part_num = 2 /\ filtered_rows > 0

\* A filtered run that returned nothing: every row was filtered out.
C10_WitnessNone ==
    /\ pc = "done" /\ Len(csv) > 0 /\ output_files = <<>> /\ filtered_rows = Len(csv)

----------------------------------------------------------------------------
(* convert_small_csv *)

\* Sizes of <base>.parquet, in bytes, around the multiples of MAX_SIZE_MB.
SmallFileSizes ==
    {10 * BytesPerMB, MAX_SIZE_BYTES, MAX_SIZE_BYTES + 1, 2 * MAX_SIZE_BYTES - 1,
     2 * MAX_SIZE_BYTES, 3 * MAX_SIZE_BYTES + 5}

\* file_size_mb <= MAX_SIZE_MB with file_size_mb = bytes / (1024 * 1024)
FitsOneFile(bytes) == bytes <= MAX_SIZE_BYTES

\* int(file_size_mb / MAX_SIZE_MB) + 1
num_splits == (file_size \div MAX_SIZE_BYTES) + 1

\* rows_per_split without the + 1.
RowsPerSplitFloor(n, splits) == n \div splits

\* len(df) // num_splits + 1
RowsPerSplit(n, splits) == n \div splits + 1

rows_per_split == RowsPerSplit(df_len, num_splits)

LargeIdle ==
    /\ csv = <<>> /\ hasYearCol = FALSE /\ year_filter = <<>> /\ pc = "idle"
    /\ chunk_num = 0 /\ output_files = <<>> /\ part_num = 1 /\ current_writer = 0
    /\ current_file = 0 /\ current_size = 0 /\ total_rows = 0 /\ filtered_rows = 0
    /\ rows_in_current_part = 0 /\ disk = <<>> /\ log = <<>>

\* Lines 127-138: a data frame of at most MaxDfRows rows has been read.
InitSmall ==
    /\ s_pc = "start"
    /\ df_len \in 0..MaxDfRows
    /\ file_size \in SmallFileSizes
    /\ temp_exists = FALSE
    /\ s_i = 0
    /\ s_result = <<>>
    /\ LargeIdle /\ MainIdle

\* Lines 139-142: the whole frame written to <base>.parquet and measured.
ToParquet ==
    /\ s_pc = "start"
    /\ s_pc' = "written"
    /\ temp_exists' = TRUE
    /\ UNCHANGED <<df_len, file_size, s_i, s_result>>
    /\ UNCHANGED <<largeVars, mainVars>>

\* Lines 145-147: the file fits; it is the result.
ReturnSingle ==
    /\ s_pc = "written"
    /\ FitsOneFile(file_size)
    /\ s_pc' = "done"
    /\ s_result' = <<[part |-> 0, start |-> 0, end |-> df_len]>>
    /\ UNCHANGED <<df_len, file_size, temp_exists, s_i>>
    /\ UNCHANGED <<largeVars, mainVars>>

\* Lines 149-156: the file is too large; it is removed and the split begins.
StartSplit ==
    /\ s_pc = "written"
    /\ ~FitsOneFile(file_size)
    /\ s_pc' = "split"
    /\ temp_exists' = FALSE
    /\ s_i' = 0
    /\ s_result' = <<>>
    /\ UNCHANGED <<df_len, file_size>>
    /\ UNCHANGED <<largeVars, mainVars>>

\* Lines 157-170: one iteration of the split loop that writes a part.
SplitStep ==
    /\ s_pc = "split"
    /\ s_i < num_splits
    /\ LET start_idx == s_i * rows_per_split
           end_idx   == Min((s_i + 1) * rows_per_split, df_len)
       IN /\ start_idx < df_len
          /\ s_result' = Append(s_result,
                                [part |-> s_i + 1, start |-> start_idx, end |-> end_idx])
    /\ s_i' = s_i + 1
    /\ UNCHANGED <<s_pc, df_len, file_size, temp_exists>>
    /\ UNCHANGED <<largeVars, mainVars>>

\* Lines 161-162 and 172: start_idx >= len(df) breaks the loop; the list is returned.
SplitBreak ==
    /\ s_pc = "split"
    /\ s_i < num_splits
    /\ s_i * rows_per_split >= df_len
    /\ s_pc' = "done"
    /\ UNCHANGED <<df_len, file_size, temp_exists, s_i, s_result>>
    /\ UNCHANGED <<largeVars, mainVars>>

\* Lines 157 and 172: range(num_splits) is exhausted; the list is returned.
SplitEnd ==
    /\ s_pc = "split"
    /\ s_i = num_splits
    /\ s_pc' = "done"
    /\ UNCHANGED <<df_len, file_size, temp_exists, s_i, s_result>>
    /\ UNCHANGED <<largeVars, mainVars>>

NextSmall ==
    \/ ToParquet
    \/ ReturnSingle
    \/ StartSplit
    \/ SplitStep
    \/ SplitBreak
    \/ SplitEnd

SpecSmall == InitSmall /\ [][NextSmall]_vars

Rows(f) == f.end - f.start

\* The function returned after splitting.
SplitDone == s_pc = "done" /\ ~FitsOneFile(file_size)

\* C8 as stated: after a split the single file is gone and there are exactly
\* N = int(file_size_mb / MAX_SIZE_MB) + 1 shards, all of the same row count.
C8_Original ==
    SplitDone =>
        /\ ~temp_exists
        /\ Len(s_result) = num_splits
        /\ \A a, b \in DOMAIN s_result : Rows(s_result[a]) = Rows(s_result[b])

\* C8 amended: after a split the single file is gone and there are at most N
\* shards, numbered from 1, that cut the rows in order into runs of
\* len(df) // N + 1 rows, the last shard holding the rows that remain (at
\* least one, at most that many); no row is lost or repeated.
C8_Split ==
    SplitDone =>
        /\ ~temp_exists
        /\ Len(s_result) <= num_splits
        /\ \A k \in DOMAIN s_result :
              /\ s_result[k].part = k
              /\ s_result[k].start = (IF k = 1 THEN 0 ELSE s_result[k - 1].end)
              /\ Rows(s_result[k]) >= 1
              /\ Rows(s_result[k]) <= df_len \div num_splits + 1
              /\ k < Len(s_result) => Rows(s_result[k]) = df_len \div num_splits + 1
        /\ df_len > 0 => (s_result # <<>> /\ s_result[Len(s_result)].end = df_len)
        /\ df_len = 0 => s_result = <<>>

\* A split returned N shards of which the last is shorter than the first.
C8_Witness ==
    /\ SplitDone /\ Len(s_result) = num_splits /\ num_splits >= 2
    /\ Rows(s_result[Len(s_result)]) < Rows(s_result[1])

\* A split returned fewer than N shards: the loop broke.
C8_WitnessFewer == SplitDone /\ df_len > 0 /\ Len(s_result) < num_splits

----------------------------------------------------------------------------
(* main *)

\* csv_files, in dict order, with the number of files listed per category.
Categories == <<"2025_dataset", "2024_prior">>
FilesPerCategory == 3

\* year_filter = (2015, 2024) if category == '2024_prior' else None
YearFilterOf(category) ==
    IF category = "2024_prior" THEN <<YearLo, YearHi>> ELSE <<>>

Row(i, y, x) == [id |-> i, year |-> y, val |-> x]

\* Contents a listed file may have: years below, at and inside the range with
\* an unparseable one; one in-range row; a file without collision_year.
FileKinds ==
    { [hasYearCol |-> TRUE,
       rows |-> <<Row(1, Txt(YearLo - 1), Txt(7)), Row(2, Txt(YearLo), Txt(7)),
                  Row(3, Txt(Bad), Txt(7))>>],
      [hasYearCol |-> TRUE, rows |-> <<Row(1, Txt(YearHi), Txt(Bad))>>],
      [hasYearCol |-> FALSE, rows |-> <<Row(1, Absent, Txt(7))>>] }

SchemaOf(rows, hasCol) ==
    [year |-> IF hasCol THEN InferType(rows, "year") ELSE "absent",
     val  |-> InferType(rows, "val")]

\* The rows of the files convert_large_csv_chunked(csv_file, output_dir, f)
\* returns: the rows the filter keeps, typed by the first chunk's schema.
ConvertLargeRows(kind, f) ==
    LET kept == IF f # <<>> /\ kind.hasYearCol THEN FilterChunk(kind.rows, f)
                ELSE kind.rows
    IN CoerceChunk(kept, SchemaOf(SubSeq(kind.rows, 1, Min(CHUNK_SIZE, Len(kind.rows))),
                                  kind.hasYearCol))

\* The rows of the files convert_small_csv(csv_file, output_dir) returns: the
\* whole frame, typed by inference over the whole file.
ConvertSmallRows(kind) ==
    CoerceChunk(kind.rows, SchemaOf(kind.rows, kind.hasYearCol))

\* Sizes of a listed CSV file, in MB, at and above the routing threshold.
CsvSizesMB == {LargeThresholdMB, LargeThresholdMB + 1}

\* file_size_mb > 500
UsesChunked(mb) == mb > LargeThresholdMB

\* Lines 216-219: the routing on the file's size and the call.
Converted(category, kind, mb) ==
    IF UsesChunked(mb) THEN ConvertLargeRows(kind, YearFilterOf(category))
    ELSE ConvertSmallRows(kind)

\* The output files of one conversion, as entries of all_output_files.
OutputEntries(category, n, kind, rows) ==
    IF rows = <<>> THEN <<>>
    ELSE <<[category |-> category, file |-> n, src |-> kind.rows, rows |-> rows]>>

InitMain ==
    /\ m_pc = "loop"
    /\ m_cat = 1
    /\ m_file = 0
    /\ all_output_files = <<>>
    /\ visits = <<>>
    /\ LargeIdle /\ SmallIdle

\* The two nested for loops move on to the next file, or leave the loops.
Advance ==
    IF m_file + 1 < FilesPerCategory
    THEN /\ m_file' = m_file + 1
         /\ UNCHANGED <<m_cat, m_pc>>
    ELSE IF m_cat < Len(Categories)
         THEN /\ m_cat' = m_cat + 1
              /\ m_file' = 0
              /\ UNCHANGED m_pc
         ELSE /\ m_pc' = "summary"
              /\ UNCHANGED <<m_cat, m_file>>

Visit(outcome) ==
    [category |-> Categories[m_cat], file |-> m_file + 1, outcome |-> outcome]

\* Lines 207-209: the file does not exist; warn and continue.
MainMissing ==
    /\ m_pc = "loop"
    /\ visits' = Append(visits, Visit("missing"))
    /\ Advance
    /\ UNCHANGED all_output_files
    /\ UNCHANGED <<largeVars, smallVars>>

\* Lines 211-221: the file is converted and its output files are collected.
MainConvert(kind, mb) ==
    /\ m_pc = "loop"
    /\ visits' = Append(visits, Visit("converted"))
    /\ all_output_files' =
          all_output_files \o
          OutputEntries(Categories[m_cat], m_file + 1, kind,
                        Converted(Categories[m_cat], kind, mb))
    /\ Advance
    /\ UNCHANGED <<largeVars, smallVars>>

\* MainConvertRaises without the try: the exception leaves main.
MainConvertPropagates ==
    /\ m_pc = "loop"
    /\ visits' = Append(visits, Visit("raised"))
    /\ m_pc' = "raised"
    /\ UNCHANGED <<m_cat, m_file, all_output_files>>
    /\ UNCHANGED <<largeVars, smallVars>>

\* Lines 211-225: the conversion raises; the error is printed and the loop goes on.
MainConvertRaises ==
    /\ m_pc = "loop"
    /\ visits' = Append(visits, Visit("raised"))
    /\ Advance
    /\ UNCHANGED all_output_files
    /\ UNCHANGED <<largeVars, smallVars>>

\* Lines 227-242: the summary is printed and main returns.
MainSummary ==
    /\ m_pc = "summary"
    /\ m_pc' = "done"
    /\ UNCHANGED <<m_cat, m_file, all_output_files, visits>>
    /\ UNCHANGED <<largeVars, smallVars>>

NextMain ==
    \/ MainMissing
    \/ \E kind \in FileKinds : \E mb \in CsvSizesMB : MainConvert(kind, mb)
    \/ MainConvertRaises
    \/ MainSummary

SpecMain == InitMain /\ [][NextMain]_vars

\* The k-th file of csv_files, counting through the categories in order.
ListedFile(k) ==
    [category |-> Categories[(k - 1) \div FilesPerCategory + 1],
     file |-> ((k - 1) % FilesPerCategory) + 1]

OutputsOf(category, n) ==
    { k \in DOMAIN all_output_files :
        all_output_files[k].category = category /\ all_output_files[k].file = n }

\* C6: main never raises; the files are visited in listing order, each once,
\* whatever happened to the files before; when the loops are left every listed
\* file has been visited; a missing file and a file whose conversion raised
\* have no entry in all_output_files.
C6_ErrorsContained ==
    /\ m_pc # "raised"
    /\ Len(visits) <= FilesPerCategory * Len(Categories)
    /\ \A k \in DOMAIN visits :
          /\ [category |-> visits[k].category, file |-> visits[k].file] = ListedFile(k)
          /\ visits[k].outcome \in {"missing", "raised"} =>
                OutputsOf(visits[k].category, visits[k].file) = {}
    /\ m_pc \in {"summary", "done"} => Len(visits) = FilesPerCategory * Len(Categories)
    /\ m_pc = "loop" => Len(visits) = (m_cat - 1) * FilesPerCategory + m_file

\* main returned after a missing file and a failed conversion, each followed by
\* a file that was converted.
C6_Witness ==
    /\ m_pc = "done"
    /\ \E a, b, c, d \in DOMAIN visits :
          /\ a < b /\ c < d
          /\ visits[a].outcome = "missing" /\ visits[b].outcome = "converted"
          /\ visits[c].outcome = "raised" /\ visits[d].outcome = "converted"
          /\ OutputsOf(visits[b].category, visits[b].file) # {}
          /\ OutputsOf(visits[d].category, visits[d].file) # {}

\* The cell holds a year that parses to a number.
ParseableYear(cell) ==
    (cell.tag = "str" /\ cell.v # Bad) \/ cell.tag \in {"num", "int"}

\* C9: no output file of category 2024_prior holds a row whose parseable year
\* is outside [YearLo, YearHi], whichever converter wrote it; an output file of
\* category 2025_dataset holds every row of its source.
C9_PriorFiltered ==
    \A k \in DOMAIN all_output_files :
        LET o == all_output_files[k]
        IN /\ o.category = "2024_prior" =>
                \A j \in DOMAIN o.rows :
                    ParseableYear(o.rows[j].year) =>
                        (YearLo <= o.rows[j].year.v /\ o.rows[j].year.v <= YearHi)
           /\ o.category = "2025_dataset" => Ids(o.rows) = Ids(o.src)

====
